---- MODULE Spec2Model ----
(***************************************************************************)
(* DramLevelDBStore: the two-tier coordinator of                           *)
(* tensorflow/core/framework/embedding/dram_leveldb_storage.h.             *)
(*                                                                         *)
(* dram_ (Hot) is a DramStorage over a LocklessHashMap, leveldb_ (Cold) a  *)
(* LevelDBStore.  The coordinator's methods are modelled statement by      *)
(* statement: every call into a tier is one atomic step of the calling     *)
(* thread, and other threads may run between two steps.  The tier          *)
(* primitives themselves (DramStorage, LevelDBStore, MultiTierStorage) are *)
(* declared in other headers; they are modelled from their documented      *)
(* contract.  The tier primitives do not take get_mutex() themselves: the  *)
(* coordinator calls leveldb_->GetSnapshot and leveldb_->Commit while it   *)
(* already holds leveldb_->get_mutex() (lines 153-154, 202-207).           *)
(***************************************************************************)
EXTENDS Integers, Sequences, FiniteSets, TLC

\* ---- bounds of the model ----
NumKeys == 2
NumThreads == 2
MaxVal == 1
MaxEvict == 2
MaxCreate == 2

Keys == 1..NumKeys
Threads == 1..NumThreads
Vals == 0..MaxVal
\* record addresses: enough for every reference the model can hold at once
Recs == 1..(NumKeys + MaxEvict + NumThreads + 1)
Nil == 0
NoVal == -1

VARIABLES
  hot,      \* dram_:    key -> address of the record linked in the hash map, or Nil
  cold,     \* leveldb_: key -> persisted content, or NoVal
  content,  \* heap: address -> content of the record stored there
  freed,    \* addresses that were destroyed and are still referenced by someone
  invalid,  \* MultiTierStorage's pending-free list (KeepInvalidValuePtr); its
            \* order is never looked at, so it is kept as a set
  hotMu,    \* holder of *dram_->get_mutex(), or 0
  coldMu,   \* holder of *leveldb_->get_mutex(), or 0
  th,       \* per thread: position, arguments, locals and result of its call
  aborted,  \* LOG(FATAL) or a failed TF_CHECK_OK has ended the process
  freeErr,  \* a record was destroyed twice
  crashAt   \* <<pc, key>> of the calls a crash has just cut short

vars == <<hot, cold, content, freed, invalid, hotMu, coldMu, th, aborted, freeErr, crashAt>>

\* pc: position; op, key: the call and its key (for an eviction, the candidate
\* evict_ids[i] at hand); i: candidates taken from evict_ids so far; vp: the local
\* value_ptr, after the return the handle handed to the caller; st: the Status
\* returned; nalloc, nfree: records this call created and destroyed; moved:
\* the <<key, content>> pairs this Eviction call has taken out of dram_ (for a
\* raw GetSnapshot: the pairs leveldb_ held when dram_ was listed);
\* klist: the key_list a snapshot has filled; it: the caller holds an Iterator;
\* pre: where the key was when the call was made
IdleThread ==
  [pc |-> "idle", op |-> "none", key |-> 0, vp |-> Nil, st |-> "none",
   nalloc |-> 0, nfree |-> 0, i |-> 0, moved |-> {},
   klist |-> <<>>, it |-> FALSE, pre |-> "none"]

\* ---- helpers ----
Range(s) == {s[j] : j \in DOMAIN s}

RECURSIVE SortedSeq(_)
SortedSeq(S) ==
  IF S = {} THEN <<>>
  ELSE LET m == CHOOSE x \in S : \A y \in S : x <= y
       IN <<m>> \o SortedSeq(S \ {m})

HotKeys == {k \in Keys : hot[k] # Nil}
ColdKeys == {k \in Keys : cold[k] # NoVal}

\* every address some table, list or thread still refers to
Held ==
  ({hot[k] : k \in Keys} \cup invalid
     \cup {th[t].vp : t \in Threads}) \ {Nil}

\* the allocator hands out an address nobody refers to.  Addresses are only
\* ever compared for equality, so which free address it is does not matter:
\* a record made for key k gets address k when that is free, any other
\* record the lowest free address above the keys
NewRec(k) ==
  LET free == Recs \ Held
      high == IF free \ Keys = {} THEN free ELSE free \ Keys
  IN IF k \in free THEN k ELSE CHOOSE r \in high : \A q \in high : r <= q

\* heap after a step: nf is the freed set, nc the contents, before addresses
\* that nobody refers to any more are forgotten
Heap(nf, nc) ==
  /\ freed' = nf \cap Held'
  /\ content' = [r \in Recs |-> IF r \in Held' THEN nc[r] ELSE 0]

\* ---- tier reads (DramStorage / LevelDBStore, used through the coordinator) ----
DramContains(k) == hot[k] # Nil
ColdContains(k) == cold[k] # NoVal
DramSize == Cardinality(HotKeys)
ColdSize == Cardinality(ColdKeys)
DramSnapshot == SortedSeq(HotKeys)
ColdSnapshot == SortedSeq(ColdKeys)

\* ---- coordinator queries ----
Size == DramSize + ColdSize

SizeOf(level) ==
  IF level = 0 THEN DramSize
  ELSE IF level = 1 THEN ColdSize
  ELSE -1

LookupTier(k) ==
  IF DramContains(k) THEN 0
  ELSE IF ColdContains(k) THEN 1
  ELSE -1

\* Get (lines 49-55) when nothing runs between its two lookups: the Status,
\* the record handed back, its content, and the records it creates
GetSeq(k) ==
  IF DramContains(k)
  THEN [st |-> "ok", vp |-> hot[k], val |-> content[hot[k]], nalloc |-> 0]
  ELSE IF ColdContains(k)
  THEN [st |-> "ok", vp |-> NewRec(Nil), val |-> cold[k], nalloc |-> 1]
  ELSE [st |-> "nf", vp |-> Nil, val |-> NoVal, nalloc |-> 0]

Where(k) ==
  IF k \notin Keys THEN "none"
  ELSE IF DramContains(k) /\ ColdContains(k) THEN "both"
  ELSE IF DramContains(k) THEN "hot"
  ELSE IF ColdContains(k) THEN "cold"
  ELSE "absent"

\* ---- steps ----
Goto(t, l) == [th EXCEPT ![t].pc = l]
Finish(t, s, h) ==
  [th EXCEPT ![t].pc = "done", ![t].st = s, ![t].vp = h]

Running(t) == ~aborted /\ th[t].pc \notin {"idle", "done"}

\* a thread enters a coordinator method with its arguments
Enter(t, o, k, first) ==
  /\ ~aborted
  /\ UNCHANGED <<hot, cold, invalid, hotMu, coldMu, aborted, freeErr>>
  /\ th[t].pc = "idle"
  /\ th' = [th EXCEPT ![t] =
       [pc |-> first, op |-> o, key |-> k, vp |-> Nil, st |-> "none",
        nalloc |-> 0, nfree |-> 0, i |-> 0, moved |-> {},
        klist |-> <<>>, it |-> th[t].it, pre |-> Where(k)]]
  /\ crashAt' = {}
  /\ Heap(freed, content)

\* the caller has looked at what the method returned and lets go of it
Return(t) ==
  /\ ~aborted
  /\ th[t].pc = "done"
  /\ UNCHANGED <<hot, cold, invalid, hotMu, coldMu, aborted, freeErr, crashAt>>
  /\ th' = [th EXCEPT ![t] = [IdleThread EXCEPT !.it = th[t].it]]
  /\ Heap(freed, content)

CallGet(t) == \E k \in Keys : Enter(t, "Get", k, "get_dram")
CallGetOrCreate(t) == \E k \in Keys : Enter(t, "GetOrCreate", k, "goc_dram")
CallInsert(t) == \E k \in Keys : Enter(t, "Insert", k, "ins_try")
CallRemove(t) == \E k \in Keys : Enter(t, "Remove", k, "rm_dram")
CallEviction(t) == Enter(t, "Eviction", 0, "ev_get")

\* leveldb_ is asked without looking into dram_
GetDramSkipped(t) ==
  /\ Running(t) /\ th[t].pc = "get_dram"
  /\ th' = Goto(t, "get_cold")
  /\ UNCHANGED <<hot, cold, content, freed, invalid, hotMu, coldMu, aborted, freeErr, crashAt>>

\* Get, line 50: dram_->Get
GetDram(t) ==
  /\ Running(t) /\ th[t].pc = "get_dram"
  /\ th' = IF DramContains(th[t].key)
           THEN Finish(t, "ok", hot[th[t].key])
           ELSE Goto(t, "get_cold")
  /\ UNCHANGED <<hot, cold, content, freed, invalid, hotMu, coldMu, aborted, freeErr, crashAt>>

\* Get, lines 52-54: leveldb_->Get reads the persisted bytes into a new record
GetCold(t) ==
  /\ Running(t) /\ th[t].pc = "get_cold"
  /\ UNCHANGED <<hot, cold, invalid, hotMu, coldMu, aborted, freeErr, crashAt>>
  /\ LET k == th[t].key
         r == NewRec(Nil)
     IN IF ColdContains(k)
        THEN /\ th' = [Finish(t, "ok", r) EXCEPT ![t].nalloc = @ + 1]
             /\ Heap(freed \ {r}, [content EXCEPT ![r] = cold[k]])
        ELSE /\ th' = Finish(t, "nf", Nil)
             /\ Heap(freed, content)

\* GetOrCreate, lines 75-78
GocDram(t) ==
  /\ Running(t) /\ th[t].pc = "goc_dram"
  /\ th' = IF DramContains(th[t].key)
           THEN Finish(t, "ok", hot[th[t].key])
           ELSE Goto(t, "goc_cold")
  /\ UNCHANGED <<hot, cold, content, freed, invalid, hotMu, coldMu, aborted, freeErr, crashAt>>

\* on a miss in leveldb_ the new record is linked whatever dram_ holds by then
GocColdOverwrites(t) ==
  /\ Running(t) /\ th[t].pc = "goc_cold"
  /\ UNCHANGED <<cold, invalid, hotMu, coldMu, aborted, freeErr, crashAt>>
  /\ LET k == th[t].key
         r == NewRec(Nil)
     IN /\ ~ColdContains(k)
        /\ hot' = [hot EXCEPT ![k] = r]
        /\ th' = [Finish(t, "ok", r) EXCEPT ![t].nalloc = @ + 1]
        /\ Heap(freed \ {r}, [content EXCEPT ![r] = 0])

\* GetOrCreate, lines 79-80: leveldb_->Get
GocCold(t) ==
  /\ Running(t) /\ th[t].pc = "goc_cold"
  /\ UNCHANGED <<hot, cold, invalid, hotMu, coldMu, aborted, freeErr, crashAt>>
  /\ LET k == th[t].key
         r == NewRec(k)
     IN IF ColdContains(k)
        THEN /\ th' = [th EXCEPT ![t].pc = "goc_try", ![t].vp = r,
                                 ![t].nalloc = @ + 1]
             /\ Heap(freed \ {r}, [content EXCEPT ![r] = cold[k]])
        ELSE /\ th' = Goto(t, "ins_try")
             /\ Heap(freed, content)

\* the copy read from leveldb_ is returned without being put into dram_
GocTryInsertSkipped(t) ==
  /\ Running(t) /\ th[t].pc = "goc_try"
  /\ th' = Finish(t, "ok", th[t].vp)
  /\ UNCHANGED <<hot, cold, content, freed, invalid, hotMu, coldMu, aborted, freeErr, crashAt>>

\* GetOrCreate, lines 81-84: dram_->TryInsert of the copy read from leveldb_
GocTryInsert(t) ==
  /\ Running(t) /\ th[t].pc = "goc_try"
  /\ LET k == th[t].key
     IN IF ~DramContains(k)
        THEN /\ hot' = [hot EXCEPT ![k] = th[t].vp]
             /\ th' = Finish(t, "ok", th[t].vp)
        ELSE /\ hot' = hot
             /\ th' = Goto(t, "goc_lost")
  /\ UNCHANGED <<cold, content, freed, invalid, hotMu, coldMu, aborted, freeErr, crashAt>>

\* the copy read from leveldb_ is kept and returned after a lost TryInsert
GocLostReturnsCopy(t) ==
  /\ Running(t) /\ th[t].pc = "goc_lost"
  /\ th' = Finish(t, "ok", th[t].vp)
  /\ UNCHANGED <<hot, cold, content, freed, invalid, hotMu, coldMu, aborted, freeErr, crashAt>>

\* GetOrCreate, lines 85-86: the promotion was lost; destroy the copy and
\* return whatever dram_->Get finds
GocLost(t) ==
  /\ Running(t) /\ th[t].pc = "goc_lost"
  /\ UNCHANGED <<hot, cold, invalid, hotMu, coldMu, aborted, crashAt>>
  /\ LET k == th[t].key
         r == th[t].vp
     IN /\ th' = IF DramContains(k)
                 THEN [Finish(t, "ok", hot[k]) EXCEPT ![t].nfree = @ + 1]
                 ELSE [Finish(t, "nf", r) EXCEPT ![t].nfree = @ + 1]
        /\ freeErr' = (freeErr \/ r \in freed)
        /\ Heap(freed \cup {r}, content)

\* DramStorage::Insert(key, value_ptr, alloc_len), reached from line 63 and
\* line 88: create a record and link it unless the key is already linked
DramInsertTry(t) ==
  /\ Running(t) /\ th[t].pc = "ins_try"
  /\ UNCHANGED <<cold, invalid, hotMu, coldMu, aborted, freeErr, crashAt>>
  /\ LET k == th[t].key
         r == NewRec(k)
     IN /\ IF ~DramContains(k)
           THEN /\ hot' = [hot EXCEPT ![k] = r]
                /\ th' = [Finish(t, "ok", r) EXCEPT ![t].nalloc = @ + 1]
           ELSE /\ hot' = hot
                /\ th' = [th EXCEPT ![t].pc = "ins_lost", ![t].vp = r,
                                    ![t].nalloc = @ + 1]
        /\ Heap(freed \ {r}, [content EXCEPT ![r] = 0])

\* DramStorage::Insert after a collision: release the record just created and
\* take the linked one; start over when it has gone in the meantime (a call
\* creates at most MaxCreate records)
DramInsertLost(t) ==
  /\ Running(t) /\ th[t].pc = "ins_lost"
  /\ DramContains(th[t].key) \/ th[t].nalloc < MaxCreate
  /\ UNCHANGED <<hot, cold, invalid, hotMu, coldMu, aborted, crashAt>>
  /\ LET k == th[t].key
         r == th[t].vp
     IN /\ th' = IF DramContains(k)
                 THEN [Finish(t, "ok", hot[k]) EXCEPT ![t].nfree = @ + 1]
                 ELSE [th EXCEPT ![t].pc = "ins_try", ![t].vp = Nil,
                                 ![t].nfree = @ + 1]
        /\ freeErr' = (freeErr \/ r \in freed)
        /\ Heap(freed \cup {r}, content)

\* Remove, line 93: dram_->Remove unlinks the key (the record is not destroyed)
RemoveDram(t) ==
  /\ Running(t) /\ th[t].pc = "rm_dram"
  /\ UNCHANGED <<cold, invalid, hotMu, coldMu, aborted, freeErr, crashAt>>
  /\ hot' = [hot EXCEPT ![th[t].key] = Nil]
  /\ th' = Goto(t, "rm_cold")
  /\ Heap(freed, content)

\* OK is returned without leveldb_->Remove
RemoveColdSkipped(t) ==
  /\ Running(t) /\ th[t].pc = "rm_cold"
  /\ th' = Finish(t, "ok", Nil)
  /\ UNCHANGED <<hot, cold, content, freed, invalid, hotMu, coldMu, aborted, freeErr, crashAt>>

\* Remove, lines 94-95: leveldb_->Remove, then Status::OK()
RemoveCold(t) ==
  /\ Running(t) /\ th[t].pc = "rm_cold"
  /\ cold' = [cold EXCEPT ![th[t].key] = NoVal]
  /\ th' = Finish(t, "ok", Nil)
  /\ UNCHANGED <<hot, content, freed, invalid, hotMu, coldMu, aborted, freeErr, crashAt>>

\* a writer of the Hot tier updates the record linked under k in place
WriteHot(t) ==
  /\ ~aborted /\ th[t].pc = "idle"
  /\ \E k \in HotKeys, v \in Vals :
       /\ hot[k] \notin freed
       /\ content[hot[k]] # v
       /\ content' = [content EXCEPT ![hot[k]] = v]
  /\ UNCHANGED <<hot, cold, freed, invalid, hotMu, coldMu, th, aborted, freeErr, crashAt>>

\* ---- Eviction, lines 188-198 ----
\* evict_ids is any array of at most MaxEvict keys.  Its entries are drawn one
\* at a time when the loop reaches them, which yields the same runs as
\* drawing the whole array at the call.
CurKey(t) == th[t].key

\* lines 190-191: the loop test, and dram_->Get of the next candidate
EvGet(t) ==
  /\ Running(t) /\ th[t].pc = "ev_get"
  /\ UNCHANGED <<hot, cold, invalid, hotMu, coldMu, aborted, freeErr, crashAt>>
  /\ \/ th' = Finish(t, "ok", Nil)
     \/ /\ th[t].i < MaxEvict
        /\ \E k \in Keys :
             th' = IF DramContains(k)
                   THEN [th EXCEPT ![t].pc = "ev_commit", ![t].key = k,
                           ![t].i = @ + 1, ![t].vp = hot[k],
                           ![t].moved = {m \in @ : m[1] # k}
                                          \cup {<<k, content[hot[k]]>>}]
                   ELSE [th EXCEPT ![t].i = @ + 1]
  /\ Heap(freed, content)

\* the key is unlinked from dram_ where the Commit should be
EvCommitUnlinksFirst(t) ==
  /\ Running(t) /\ th[t].pc = "ev_commit"
  /\ UNCHANGED <<cold, invalid, hotMu, coldMu, aborted, freeErr, crashAt>>
  /\ hot' = [hot EXCEPT ![CurKey(t)] = Nil]
  /\ th' = Goto(t, "ev_remove")
  /\ Heap(freed, content)

\* line 192: TF_CHECK_OK(leveldb_->Commit(key, value_ptr))
EvCommit(t) ==
  /\ Running(t) /\ th[t].pc = "ev_commit"
  /\ cold' = [cold EXCEPT ![CurKey(t)] = content[th[t].vp]]
  /\ th' = Goto(t, "ev_remove")
  /\ UNCHANGED <<hot, content, freed, invalid, hotMu, coldMu, aborted, freeErr, crashAt>>

\* the key stays linked in dram_
EvRemoveSkipped(t) ==
  /\ Running(t) /\ th[t].pc = "ev_remove"
  /\ th' = Goto(t, "ev_destroy")
  /\ UNCHANGED <<hot, cold, content, freed, invalid, hotMu, coldMu, aborted, freeErr, crashAt>>

\* line 193: TF_CHECK_OK(dram_->Remove(key))
EvRemove(t) ==
  /\ Running(t) /\ th[t].pc = "ev_remove"
  /\ UNCHANGED <<cold, invalid, hotMu, coldMu, freeErr, crashAt>>
  /\ IF DramContains(CurKey(t))
     THEN /\ hot' = [hot EXCEPT ![CurKey(t)] = Nil]
          /\ th' = Goto(t, "ev_destroy")
          /\ aborted' = aborted
     ELSE /\ hot' = hot
          /\ th' = th
          /\ aborted' = TRUE
  /\ Heap(freed, content)

\* line 194: dram_->DestroyValuePtr(value_ptr), then the next candidate
EvDestroy(t) ==
  /\ Running(t) /\ th[t].pc = "ev_destroy"
  /\ UNCHANGED <<hot, cold, invalid, hotMu, coldMu, aborted, crashAt>>
  /\ LET r == th[t].vp
     IN /\ th' = [th EXCEPT ![t].pc = "ev_get", ![t].vp = Nil,
                            ![t].nfree = @ + 1]
        /\ freeErr' = (freeErr \/ r \in freed)
        /\ Heap(freed \cup {r}, content)

\* ---- raw GetSnapshot, lines 146-157 ----
CallGetSnapshot(t) == Enter(t, "GetSnapshot", 0, "snap_lock_hot")

\* line 149: mutex_lock l(*(dram_->get_mutex()))
SnapLockHot(t) ==
  /\ Running(t) /\ th[t].pc = "snap_lock_hot"
  /\ hotMu = 0
  /\ hotMu' = t
  /\ th' = Goto(t, "snap_hot")
  /\ UNCHANGED <<hot, cold, content, freed, invalid, coldMu, aborted, freeErr, crashAt>>

\* lines 150-151: dram_->GetSnapshot appends Hot's keys; the lock is released
\* (moved notes what leveldb_ holds at this moment, for the claims)
SnapHot(t) ==
  /\ Running(t) /\ th[t].pc = "snap_hot"
  /\ th' = [th EXCEPT ![t].pc = "snap_lock_cold", ![t].klist = @ \o DramSnapshot,
                        ![t].moved = {<<k, cold[k]>> : k \in ColdKeys}]
  /\ hotMu' = 0
  /\ UNCHANGED <<hot, cold, content, freed, invalid, coldMu, aborted, freeErr, crashAt>>

\* line 153: mutex_lock l(*(leveldb_->get_mutex()))
SnapLockCold(t) ==
  /\ Running(t) /\ th[t].pc = "snap_lock_cold"
  /\ coldMu = 0
  /\ coldMu' = t
  /\ th' = Goto(t, "snap_cold")
  /\ UNCHANGED <<hot, cold, content, freed, invalid, hotMu, aborted, freeErr, crashAt>>

\* OK is returned without leveldb_->GetSnapshot
SnapColdSkipped(t) ==
  /\ Running(t) /\ th[t].pc = "snap_cold"
  /\ th' = Finish(t, "ok", Nil)
  /\ coldMu' = 0
  /\ UNCHANGED <<hot, cold, content, freed, invalid, hotMu, aborted, freeErr, crashAt>>

\* lines 154-156: leveldb_->GetSnapshot appends Cold's keys; unlock; OK
SnapCold(t) ==
  /\ Running(t) /\ th[t].pc = "snap_cold"
  /\ th' = [Finish(t, "ok", Nil) EXCEPT ![t].klist = @ \o ColdSnapshot]
  /\ coldMu' = 0
  /\ UNCHANGED <<hot, cold, content, freed, invalid, hotMu, aborted, freeErr, crashAt>>

\* ---- checkpoint GetSnapshot, lines 165-186 ----
CallGetSnapshotCkpt(t) == Enter(t, "GetSnapshotCkpt", 0, "ck_lock_hot")

\* line 173: mutex_lock l(*(dram_->get_mutex()))
CkLockHot(t) ==
  /\ Running(t) /\ th[t].pc = "ck_lock_hot"
  /\ hotMu = 0
  /\ hotMu' = t
  /\ th' = Goto(t, "ck_hot")
  /\ UNCHANGED <<hot, cold, content, freed, invalid, coldMu, aborted, freeErr, crashAt>>

\* lines 174-180: Hot's entries are decoded into the caller's lists; unlock
CkHot(t) ==
  /\ Running(t) /\ th[t].pc = "ck_hot"
  /\ th' = Goto(t, "ck_lock_cold")
  /\ hotMu' = 0
  /\ UNCHANGED <<hot, cold, content, freed, invalid, coldMu, aborted, freeErr, crashAt>>

\* line 182: mutex_lock l(*(leveldb_->get_mutex()))
CkLockCold(t) ==
  /\ Running(t) /\ th[t].pc = "ck_lock_cold"
  /\ coldMu = 0
  /\ coldMu' = t
  /\ th' = Goto(t, "ck_iter")
  /\ UNCHANGED <<hot, cold, content, freed, invalid, hotMu, aborted, freeErr, crashAt>>

\* lines 183-185: *it = leveldb_->GetIterator(); the lock is released at the
\* end of the block and the iterator is handed to the caller
CkIter(t) ==
  /\ Running(t) /\ th[t].pc = "ck_iter"
  /\ th' = [Finish(t, "ok", Nil) EXCEPT ![t].it = TRUE]
  /\ coldMu' = 0
  /\ UNCHANGED <<hot, cold, content, freed, invalid, hotMu, aborted, freeErr, crashAt>>

\* ---- iterator_mutex_lock / iterator_mutex_unlock, lines 112-118 ----
\* the caller that was handed an iterator brackets the streaming of it
CallIteratorMutexLock(t) ==
  /\ th[t].it
  /\ Enter(t, "iterator_mutex_lock", 0, "il_lock")

\* line 113: leveldb_->get_mutex()->lock(); the method returns with the lock held
IteratorMutexLock(t) ==
  /\ Running(t) /\ th[t].pc = "il_lock"
  /\ coldMu = 0
  /\ coldMu' = t
  /\ th' = Goto(t, "il_drain")
  /\ UNCHANGED <<hot, cold, content, freed, invalid, hotMu, aborted, freeErr, crashAt>>

\* the caller streams the Cold entries through the iterator and deletes it
DrainIterator(t) ==
  /\ Running(t) /\ th[t].pc = "il_drain"
  /\ th' = [th EXCEPT ![t].pc = "il_unlock", ![t].it = FALSE]
  /\ UNCHANGED <<hot, cold, content, freed, invalid, hotMu, coldMu, aborted, freeErr, crashAt>>

\* line 117: leveldb_->get_mutex()->unlock()
IteratorMutexUnlock(t) ==
  /\ Running(t) /\ th[t].pc = "il_unlock"
  /\ coldMu' = 0
  /\ th' = Finish(t, "ok", Nil)
  /\ UNCHANGED <<hot, cold, content, freed, invalid, hotMu, aborted, freeErr, crashAt>>

\* ---- EvictionWithDelayedDestroy, lines 200-213 ----
CallEvictionWithDelayedDestroy(t) ==
  Enter(t, "EvictionWithDelayedDestroy", 0, "ewdd_lock_hot")

\* leveldb_'s mutex is taken first, dram_'s after it
EwddLockHotAfterCold(t) ==
  /\ Running(t) /\ th[t].pc = "ewdd_lock_hot"
  /\ IF coldMu # t
     THEN /\ coldMu = 0
          /\ coldMu' = t
          /\ UNCHANGED <<hotMu, th>>
     ELSE /\ hotMu = 0
          /\ hotMu' = t
          /\ th' = Goto(t, "ewdd_release")
          /\ UNCHANGED coldMu
  /\ UNCHANGED <<hot, cold, content, freed, invalid, aborted, freeErr, crashAt>>

\* line 201: mutex_lock l(*(dram_->get_mutex()))
EwddLockHot(t) ==
  /\ Running(t) /\ th[t].pc = "ewdd_lock_hot"
  /\ hotMu = 0
  /\ hotMu' = t
  /\ th' = Goto(t, "ewdd_lock_cold")
  /\ UNCHANGED <<hot, cold, content, freed, invalid, coldMu, aborted, freeErr, crashAt>>

\* line 202: mutex_lock l1(*(leveldb_->get_mutex()))
EwddLockCold(t) ==
  /\ Running(t) /\ th[t].pc = "ewdd_lock_cold"
  /\ coldMu = 0
  /\ coldMu' = t
  /\ th' = Goto(t, "ewdd_release")
  /\ UNCHANGED <<hot, cold, content, freed, invalid, hotMu, aborted, freeErr, crashAt>>

\* line 203: ReleaseInvalidValuePtr destroys every record on the pending list
EwddRelease(t) ==
  /\ Running(t) /\ th[t].pc = "ewdd_release"
  /\ UNCHANGED <<hot, cold, hotMu, coldMu, aborted, crashAt>>
  /\ invalid' = {}
  /\ th' = Goto(t, "ewdd_get")
  /\ freeErr' = (freeErr \/ invalid \cap freed # {})
  /\ Heap(freed \cup invalid, content)

\* lines 205-206 and 212: the loop test and dram_->Get of the next candidate;
\* at the end of the array both locks are released and OK is returned
EwddGet(t) ==
  /\ Running(t) /\ th[t].pc = "ewdd_get"
  /\ UNCHANGED <<hot, cold, invalid, aborted, freeErr, crashAt>>
  /\ \/ /\ th' = Finish(t, "ok", Nil)
        /\ hotMu' = 0 /\ coldMu' = 0
     \/ /\ th[t].i < MaxEvict
        /\ UNCHANGED <<hotMu, coldMu>>
        /\ \E k \in Keys :
             th' = IF DramContains(k)
                   THEN [th EXCEPT ![t].pc = "ewdd_commit", ![t].key = k,
                           ![t].i = @ + 1, ![t].vp = hot[k]]
                   ELSE [th EXCEPT ![t].i = @ + 1]
  /\ Heap(freed, content)

\* line 207: TF_CHECK_OK(leveldb_->Commit(key, value_ptr))
EwddCommit(t) ==
  /\ Running(t) /\ th[t].pc = "ewdd_commit"
  /\ cold' = [cold EXCEPT ![CurKey(t)] = content[th[t].vp]]
  /\ th' = Goto(t, "ewdd_remove")
  /\ UNCHANGED <<hot, content, freed, invalid, hotMu, coldMu, aborted, freeErr, crashAt>>

\* line 208: TF_CHECK_OK(dram_->Remove(key))
EwddRemove(t) ==
  /\ Running(t) /\ th[t].pc = "ewdd_remove"
  /\ UNCHANGED <<cold, invalid, hotMu, coldMu, freeErr, crashAt>>
  /\ IF DramContains(CurKey(t))
     THEN /\ hot' = [hot EXCEPT ![CurKey(t)] = Nil]
          /\ th' = Goto(t, "ewdd_keep")
          /\ aborted' = aborted
     ELSE /\ hot' = hot
          /\ th' = th
          /\ aborted' = TRUE
  /\ Heap(freed, content)

\* line 209: KeepInvalidValuePtr parks the record on the pending list
EwddKeep(t) ==
  /\ Running(t) /\ th[t].pc = "ewdd_keep"
  /\ UNCHANGED <<hot, cold, hotMu, coldMu, aborted, crashAt>>
  /\ invalid' = invalid \cup {th[t].vp}
  /\ freeErr' = (freeErr \/ th[t].vp \in invalid)
  /\ th' = [th EXCEPT ![t].pc = "ewdd_get", ![t].vp = Nil]
  /\ Heap(freed, content)

\* ---- Insert(key, value_ptr), lines 57-59 ----
CallInsertRecord(t) == \E k \in Keys : Enter(t, "InsertRecord", k, "insr_fatal")

\* the record is linked into dram_ and the method returns
InsertFatalReturns(t) ==
  /\ Running(t) /\ th[t].pc = "insr_fatal"
  /\ UNCHANGED <<cold, invalid, hotMu, coldMu, aborted, freeErr, crashAt>>
  /\ LET r == NewRec(th[t].key)
     IN /\ hot' = [hot EXCEPT ![th[t].key] = r]
        /\ th' = Finish(t, "ok", r)
        /\ Heap(freed \ {r}, [content EXCEPT ![r] = 0])

\* line 58: LOG(FATAL) ends the process
InsertFatal(t) ==
  /\ Running(t) /\ th[t].pc = "insr_fatal"
  /\ aborted' = TRUE
  /\ UNCHANGED <<hot, cold, content, freed, invalid, hotMu, coldMu, th, freeErr, crashAt>>

\* ---- Shrink, lines 159-163 ----
CallShrink(t) == Enter(t, "Shrink", 0, "shr_dram")

\* line 160: dram_->Shrink, a capacity hint that leaves Hot's entries alone
ShrinkDram(t) ==
  /\ Running(t) /\ th[t].pc = "shr_dram"
  /\ th' = Goto(t, "shr_cold")
  /\ UNCHANGED <<hot, cold, content, freed, invalid, hotMu, coldMu, aborted, freeErr, crashAt>>

\* lines 161-162: leveldb_->Shrink, a compaction hint; then Status::OK()
ShrinkCold(t) ==
  /\ Running(t) /\ th[t].pc = "shr_cold"
  /\ th' = Finish(t, "ok", Nil)
  /\ UNCHANGED <<hot, cold, content, freed, invalid, hotMu, coldMu, aborted, freeErr, crashAt>>

\* ---- crash injection: the process dies and restarts; everything in
\* memory (dram_, the heap, the locks, the calls in flight) is lost and
\* what leveldb_ has persisted remains
Crash ==
  /\ ~aborted
  /\ \E t \in Threads : Running(t)
  /\ crashAt' = {<<th[t].pc, th[t].key>> : t \in {u \in Threads : Running(u)}}
  /\ hot' = [k \in Keys |-> Nil]
  /\ content' = [r \in Recs |-> 0]
  /\ freed' = {}
  /\ invalid' = {}
  /\ hotMu' = 0 /\ coldMu' = 0
  /\ th' = [t \in Threads |-> IdleThread]
  /\ UNCHANGED <<cold, aborted, freeErr>>

\* ---- the state after construction (lines 34-39) ----
Init ==
  /\ hot = [k \in Keys |-> Nil]
  /\ cold = [k \in Keys |-> NoVal]
  /\ content = [r \in Recs |-> 0]
  /\ freed = {}
  /\ invalid = {}
  /\ hotMu = 0
  /\ coldMu = 0
  /\ th = [t \in Threads |-> IdleThread]
  /\ aborted = FALSE
  /\ freeErr = FALSE
  /\ crashAt = {}

\* the store after Insert(1, alloc_len) or GetOrCreate(1, size)
InitOne ==
  /\ hot = [k \in Keys |-> IF k = 1 THEN 1 ELSE Nil]
  /\ cold = [k \in Keys |-> NoVal]
  /\ content = [r \in Recs |-> 0]
  /\ freed = {}
  /\ invalid = {}
  /\ hotMu = 0
  /\ coldMu = 0
  /\ th = [t \in Threads |-> IdleThread]
  /\ aborted = FALSE
  /\ freeErr = FALSE
  /\ crashAt = {}

\* the store after every key was created, written and evicted
InitCold ==
  /\ hot = [k \in Keys |-> Nil]
  /\ cold = [k \in Keys |-> MaxVal]
  /\ content = [r \in Recs |-> 0]
  /\ freed = {}
  /\ invalid = {}
  /\ hotMu = 0
  /\ coldMu = 0
  /\ th = [t \in Threads |-> IdleThread]
  /\ aborted = FALSE
  /\ freeErr = FALSE
  /\ crashAt = {}

\* the store after GetOrCreate(k, size) of every key
InitHot ==
  /\ hot = [k \in Keys |-> k]
  /\ cold = [k \in Keys |-> NoVal]
  /\ content = [r \in Recs |-> 0]
  /\ freed = {}
  /\ invalid = {}
  /\ hotMu = 0
  /\ coldMu = 0
  /\ th = [t \in Threads |-> IdleThread]
  /\ aborted = FALSE
  /\ freeErr = FALSE
  /\ crashAt = {}

\* ---- one caller, one operation at a time ----
SeqNext ==
  \/ CallGet(1) \/ GetDram(1) \/ GetCold(1)
  \/ CallGetOrCreate(1) \/ GocDram(1) \/ GocCold(1) \/ GocTryInsert(1)
  \/ CallInsert(1) \/ DramInsertTry(1)
  \/ CallRemove(1) \/ RemoveDram(1) \/ RemoveCold(1)
  \/ CallEviction(1) \/ EvGet(1) \/ EvCommit(1) \/ EvRemove(1) \/ EvDestroy(1)
  \/ WriteHot(1) \/ Return(1)

SpecSeq == Init /\ [][SeqNext]_vars

\* ---- one caller that uses Insert, GetOrCreate, Eviction,
\* EvictionWithDelayedDestroy and Remove ----
TierNext ==
  \/ CallGetOrCreate(1) \/ GocDram(1) \/ GocCold(1) \/ GocTryInsert(1)
  \/ CallInsert(1) \/ DramInsertTry(1)
  \/ CallRemove(1) \/ RemoveDram(1) \/ RemoveCold(1)
  \/ CallEviction(1) \/ EvGet(1) \/ EvCommit(1) \/ EvRemove(1) \/ EvDestroy(1)
  \/ CallEvictionWithDelayedDestroy(1) \/ EwddLockHot(1) \/ EwddLockCold(1)
  \/ EwddRelease(1) \/ EwddGet(1) \/ EwddCommit(1) \/ EwddRemove(1) \/ EwddKeep(1)
  \/ Return(1)

SpecTier == Init /\ [][TierNext]_vars

\* ---- one caller that only uses GetOrCreate, Eviction, Remove and the raw
\* GetSnapshot ----
CoreNext ==
  \/ CallGetOrCreate(1) \/ GocDram(1) \/ GocCold(1) \/ GocTryInsert(1)
  \/ DramInsertTry(1)
  \/ CallRemove(1) \/ RemoveDram(1) \/ RemoveCold(1)
  \/ CallEviction(1) \/ EvGet(1) \/ EvCommit(1) \/ EvRemove(1) \/ EvDestroy(1)
  \/ CallGetSnapshot(1) \/ SnapLockHot(1) \/ SnapHot(1) \/ SnapLockCold(1) \/ SnapCold(1)
  \/ Return(1)

SpecCore == Init /\ [][CoreNext]_vars

\* ---- one caller, with a crash at any step of a call ----
CrashNext ==
  \/ CallGetOrCreate(1) \/ GocDram(1) \/ GocCold(1) \/ GocTryInsert(1)
  \/ DramInsertTry(1)
  \/ CallEviction(1) \/ EvGet(1) \/ EvCommit(1) \/ EvRemove(1) \/ EvDestroy(1)
  \/ CallEvictionWithDelayedDestroy(1) \/ EwddLockHot(1) \/ EwddLockCold(1)
  \/ EwddRelease(1) \/ EwddGet(1) \/ EwddCommit(1) \/ EwddRemove(1) \/ EwddKeep(1)
  \/ Return(1)
  \/ Crash

SpecCrash == Init /\ [][CrashNext]_vars

\* ---- threads racing through GetOrCreate on a store that holds nothing ----
RaceNext ==
  \E t \in Threads :
    \/ CallGetOrCreate(t) \/ GocDram(t) \/ GocCold(t)
    \/ DramInsertTry(t) \/ DramInsertLost(t)
    \/ Return(t)

SpecRace == Init /\ [][RaceNext]_vars

\* ---- threads that evict under both locks, take snapshots and stream the
\* Cold iterator, on a store whose Hot tier holds one key ----
LockNext ==
  \E t \in Threads :
    \/ CallEvictionWithDelayedDestroy(t) \/ EwddLockHot(t) \/ EwddLockCold(t)
    \/ EwddRelease(t) \/ EwddGet(t) \/ EwddCommit(t) \/ EwddRemove(t) \/ EwddKeep(t)
    \/ CallGetSnapshot(t) \/ SnapLockHot(t) \/ SnapHot(t) \/ SnapLockCold(t) \/ SnapCold(t)
    \/ CallGetSnapshotCkpt(t) \/ CkLockHot(t) \/ CkHot(t) \/ CkLockCold(t) \/ CkIter(t)
    \/ CallIteratorMutexLock(t) \/ IteratorMutexLock(t) \/ DrainIterator(t)
    \/ IteratorMutexUnlock(t)
    \/ Return(t)

SpecLock == InitOne /\ [][LockNext]_vars

\* ---- claims about one caller ----
Quiet == \A t \in Threads : th[t].pc \in {"idle", "done"}
Returned(t, o) == th[t].pc = "done" /\ th[t].op = o

\* C1 (INV1): between coordinator operations every key is present in at most
\* one of the two tiers.
C1_AtMostOneTier ==
  Quiet => \A k \in Keys : ~(DramContains(k) /\ ColdContains(k))

\* C3 (P3): whatever held k before, Remove(k) returns OK and right afterwards
\* Get(k) is not-found and LookupTier(k) is -1.
C3_RemovalFinality ==
  \A t \in Threads :
    Returned(t, "Remove") =>
      /\ th[t].st = "ok"
      /\ GetSeq(th[t].key).st = "nf"
      /\ LookupTier(th[t].key) = -1

C3_Witness ==
  \E t \in Threads : Returned(t, "Remove") /\ th[t].pre = "both"

\* C4 (P4): after Eviction returns, every key it found in Hot is reported
\* Cold by LookupTier, is no longer in Hot, and Get returns the content the
\* Hot record held when it was evicted.
C4_Migration ==
  \A t \in Threads :
    Returned(t, "Eviction") =>
      \A m \in th[t].moved :
        /\ LookupTier(m[1]) = 1
        /\ ~DramContains(m[1])
        /\ GetSeq(m[1]).st = "ok"
        /\ GetSeq(m[1]).val = m[2]

C4_Witness ==
  \E t \in Threads :
    /\ Returned(t, "Eviction")
    /\ \E m \in th[t].moved : m[2] = MaxVal

\* C5 (P1): a Get(k) made right after GetOrCreate(k, size) returned hands
\* back the same record, with the same content, and creates no record.
C5_Identity ==
  \A t \in Threads :
    Returned(t, "GetOrCreate") =>
      /\ th[t].st = "ok"
      /\ GetSeq(th[t].key).st = "ok"
      /\ GetSeq(th[t].key).vp = th[t].vp
      /\ GetSeq(th[t].key).val = content[th[t].vp]
      /\ GetSeq(th[t].key).nalloc = 0

C5_Witness ==
  \E t \in Threads : Returned(t, "GetOrCreate") /\ th[t].pre = "cold"

\* C6 (P6): a raw GetSnapshot taken with nothing running beside it lists
\* every key of Hot or Cold exactly once.
C6_SnapshotUnion ==
  \A t \in Threads :
    Returned(t, "GetSnapshot") =>
      /\ Range(th[t].klist) = HotKeys \cup ColdKeys
      /\ Len(th[t].klist) = Cardinality(HotKeys \cup ColdKeys)

\* C7: between operations Size() is the number of keys Get finds, Size(0) the
\* number of keys LookupTier reports Hot, Size(1) the number it reports Cold.
C7_SizeCountsKeys ==
  Quiet =>
    /\ Size = Cardinality({k \in Keys : GetSeq(k).st = "ok"})
    /\ SizeOf(0) = Cardinality({k \in Keys : LookupTier(k) = 0})
    /\ SizeOf(1) = Cardinality({k \in Keys : LookupTier(k) = 1})

\* ---- claims about racing GetOrCreate calls (SpecRace) ----
RECURSIVE SumOver(_, _)
SumOver(S, f) ==
  IF S = {} THEN 0
  ELSE LET x == CHOOSE y \in S : TRUE
       IN f[x] + SumOver(S \ {x}, f)

\* every thread has returned from a GetOrCreate(k, size) that it called
\* while k was in neither tier
AllRaced(k) ==
  \A t \in Threads :
    Returned(t, "GetOrCreate") /\ th[t].key = k /\ th[t].pre = "absent"

C8_CommitBeforeRemove ==
  /\ \A t \in Threads :
       /\ th[t].pc \in {"ev_commit", "ewdd_commit"} => DramContains(th[t].key)
       /\ th[t].pc \in {"ev_remove", "ewdd_remove"} =>
            /\ DramContains(th[t].key)
            /\ cold[th[t].key] = content[th[t].vp]
       /\ th[t].pc \in {"ev_destroy", "ewdd_keep"} => ColdContains(th[t].key)
  /\ \A c \in crashAt :
       c[1] \in {"ev_remove", "ewdd_remove"} =>
         /\ ColdContains(c[2])
         /\ ~DramContains(c[2])
         /\ Size = Cardinality(HotKeys \cup ColdKeys)

C8_Witness ==
  \E c \in crashAt : c[1] \in {"ev_remove", "ewdd_remove"}

\* ---- claims about the two mutexes (SpecLock) ----
WantsHot(t) == th[t].pc \in {"ewdd_lock_hot", "snap_lock_hot", "ck_lock_hot"}
WantsCold(t) ==
  th[t].pc \in {"ewdd_lock_cold", "snap_lock_cold", "ck_lock_cold", "il_lock"}

\* the thread that holds the mutex t is waiting for, or 0
WaitsFor(t) ==
  IF WantsHot(t) THEN hotMu
  ELSE IF WantsCold(t) THEN coldMu
  ELSE 0

\* C9: the only path that holds both mutexes is EvictionWithDelayedDestroy,
\* which took Hot's first; no thread asks for Hot's mutex while it holds
\* Cold's; no set of threads wait for each other.
C9_LockOrder ==
  /\ \A t \in Threads :
       /\ (hotMu = t /\ coldMu = t) => th[t].op = "EvictionWithDelayedDestroy"
       /\ (th[t].op = "EvictionWithDelayedDestroy" /\ coldMu = t) => hotMu = t
       /\ coldMu = t => ~WantsHot(t)
       /\ WaitsFor(t) # t
  /\ \A t, u \in Threads :
       ~(t # u /\ WaitsFor(t) = u /\ WaitsFor(u) = t)

C9_Witness ==
  \E t, u \in Threads :
    /\ hotMu = t /\ coldMu = t
    /\ th[u].pc = "il_lock"

\* C10: as long as a caller holds the Cold iterator the checkpoint
\* GetSnapshot made for it, Cold's mutex is held for that caller.
C10_IteratorUnderColdMutex ==
  \A t \in Threads : th[t].it => coldMu = t

\* ---- readers beside EvictionWithDelayedDestroy ----
\* thread 1 reads through Get and GetOrCreate, the other threads evict
DeferNext ==
  \/ CallGet(1) \/ GetDram(1) \/ GetCold(1)
  \/ CallGetOrCreate(1) \/ GocDram(1) \/ GocCold(1) \/ GocTryInsert(1)
  \/ DramInsertTry(1)
  \/ Return(1)
  \/ \E t \in Threads \ {1} :
       \/ CallEvictionWithDelayedDestroy(t) \/ EwddLockHot(t) \/ EwddLockCold(t)
       \/ EwddRelease(t) \/ EwddGet(t) \/ EwddCommit(t) \/ EwddRemove(t)
       \/ EwddKeep(t) \/ Return(t)

SpecDefer == Init /\ [][DeferNext]_vars

\* a caller of Get or GetOrCreate to whom a record was handed
HoldsHandle(t) ==
  /\ th[t].pc = "done"
  /\ th[t].op \in {"Get", "GetOrCreate"}
  /\ th[t].st = "ok"

\* C11: a record EvictionWithDelayedDestroy unlinked is not freed before the
\* call returns, it is on the pending-free list when the call returns, it is
\* freed once, and never while a reader holds the handle Get or GetOrCreate
\* gave it.
C11_DeferredDestruction ==
  /\ \A t \in Threads :
       th[t].op = "EvictionWithDelayedDestroy" =>
         /\ th[t].pc = "ewdd_keep" => th[t].vp \notin freed
         /\ th[t].pc \in {"ewdd_get", "ewdd_commit", "ewdd_remove", "ewdd_keep", "done"} =>
              invalid \cap freed = {}
  /\ \A t \in Threads : HoldsHandle(t) => th[t].vp \notin freed
  /\ ~freeErr

\* ---- one caller that uses both forms of Insert ----
InsertNext ==
  \/ CallInsertRecord(1) \/ InsertFatal(1)
  \/ CallInsert(1) \/ DramInsertTry(1) \/ DramInsertLost(1)
  \/ CallGetOrCreate(1) \/ GocDram(1) \/ GocCold(1) \/ GocTryInsert(1)
  \/ CallEviction(1) \/ EvGet(1) \/ EvCommit(1) \/ EvRemove(1) \/ EvDestroy(1)
  \/ WriteHot(1) \/ Return(1)

SpecInsert == Init /\ [][InsertNext]_vars

PromoNext ==
  \E t \in Threads :
    \/ CallGetOrCreate(t) \/ GocDram(t) \/ GocCold(t)
    \/ GocTryInsert(t) \/ GocLost(t)
    \/ Return(t)

SpecPromo == InitCold /\ [][PromoNext]_vars

\* every thread has returned from a GetOrCreate(k, size) that it called
\* while k was in Cold only
AllPromoted(k) ==
  \A t \in Threads :
    Returned(t, "GetOrCreate") /\ th[t].key = k /\ th[t].pre = "cold"

\* C13: of the GetOrCreate calls racing on a key that is in Cold only, one
\* links the copy it read into Hot; each of the others that read a copy
\* destroys its own copy once and none destroys the linked record; every call
\* returns the linked record, which is the one record left for the key.
C13_PromotionRace ==
  /\ \A t \in Threads :
       /\ Returned(t, "GetOrCreate") =>
            /\ th[t].st = "ok"
            /\ th[t].vp = hot[th[t].key]
            /\ content[th[t].vp] = cold[th[t].key]
       /\ th[t].pc = "goc_lost" =>
            /\ th[t].vp # hot[th[t].key]
            /\ th[t].vp \notin freed
       /\ th[t].nfree <= th[t].nalloc
  /\ \A k \in HotKeys : hot[k] \notin freed
  /\ \A k \in Keys :
       AllPromoted(k) =>
         /\ Cardinality({t \in Threads : th[t].nalloc = 1 /\ th[t].nfree = 0}) = 1
         /\ \A t, u \in Threads : th[t].vp = th[u].vp
         /\ SumOver(Threads, [t \in Threads |-> th[t].nalloc])
              = SumOver(Threads, [t \in Threads |-> th[t].nfree]) + 1
         /\ Held \ freed = {hot[j] : j \in HotKeys}
  /\ ~freeErr

C13_Witness ==
  \E k \in Keys :
    /\ AllPromoted(k)
    /\ \E t \in Threads : th[t].nfree = 1

\* ---- one caller that uses every operation of the coordinator ----
OpsNext ==
  \/ CallGet(1) \/ GetDram(1) \/ GetCold(1)
  \/ CallGetOrCreate(1) \/ GocDram(1) \/ GocCold(1) \/ GocTryInsert(1)
  \/ CallInsert(1) \/ DramInsertTry(1) \/ DramInsertLost(1)
  \/ CallRemove(1) \/ RemoveDram(1) \/ RemoveCold(1)
  \/ CallEviction(1) \/ EvGet(1) \/ EvCommit(1) \/ EvRemove(1) \/ EvDestroy(1)
  \/ CallEvictionWithDelayedDestroy(1) \/ EwddLockHot(1) \/ EwddLockCold(1)
  \/ EwddRelease(1) \/ EwddGet(1) \/ EwddCommit(1) \/ EwddRemove(1) \/ EwddKeep(1)
  \/ CallShrink(1) \/ ShrinkDram(1) \/ ShrinkCold(1)
  \/ CallGetSnapshot(1) \/ SnapLockHot(1) \/ SnapHot(1) \/ SnapLockCold(1) \/ SnapCold(1)
  \/ CallGetSnapshotCkpt(1) \/ CkLockHot(1) \/ CkHot(1) \/ CkLockCold(1) \/ CkIter(1)
  \/ CallIteratorMutexLock(1) \/ IteratorMutexLock(1) \/ DrainIterator(1)
  \/ IteratorMutexUnlock(1)
  \/ Return(1)

SpecOps == Init /\ [][OpsNext]_vars

\* the call that takes the step is at position l of operation o
StepOf(o, l) == \E t \in Threads : th[t].op = o /\ th[t].pc = l

\* C14: a key enters Hot from Cold only by the TryInsert of GetOrCreate's
\* promotion branch, which leaves the Cold entry in place, and from nowhere
\* only by the create of GetOrCreate or Insert; it leaves Hot only by the
\* Remove of an eviction, after the Commit, or by Remove; it enters Cold
\* only by the Commit of an eviction and leaves Cold only by Remove.
C14_KeyStateMachine ==
  [][\A k \in Keys :
       /\ (~DramContains(k) /\ DramContains(k)' /\ ColdContains(k)) =>
            /\ StepOf("GetOrCreate", "goc_try")
            /\ ColdContains(k)'
       /\ (~DramContains(k) /\ DramContains(k)' /\ ~ColdContains(k)) =>
            /\ StepOf("GetOrCreate", "ins_try") \/ StepOf("Insert", "ins_try")
            /\ ~ColdContains(k)'
       /\ (DramContains(k) /\ ~DramContains(k)') =>
            \/ StepOf("Remove", "rm_dram")
            \/ /\ StepOf("Eviction", "ev_remove")
                    \/ StepOf("EvictionWithDelayedDestroy", "ewdd_remove")
               /\ ColdContains(k)
       /\ (~ColdContains(k) /\ ColdContains(k)') =>
            /\ StepOf("Eviction", "ev_commit")
                 \/ StepOf("EvictionWithDelayedDestroy", "ewdd_commit")
            /\ DramContains(k)
       /\ (ColdContains(k) /\ ~ColdContains(k)') =>
            StepOf("Remove", "rm_cold")]_vars

\* ---- claims about Get (SpecSeq) ----
\* C15: Get(k) hands back the Hot record when k is in Hot, also when Cold holds
\* k as well; a record with Cold's content when k is in Cold only; not-found
\* when k is in neither tier.  No step of Get changes the key set of Hot or
\* of Cold, Size(0), Size(1) or LookupTier(k).
C15_GetResolvesHotFirst ==
  [][\A t \in Threads :
       (th[t].op = "Get" /\ Running(t)) =>
         /\ HotKeys' = HotKeys
         /\ ColdKeys' = ColdKeys
         /\ SizeOf(0)' = SizeOf(0)
         /\ SizeOf(1)' = SizeOf(1)
         /\ LookupTier(th[t].key)' = LookupTier(th[t].key)
         /\ th'[t].pc = "done" =>
              /\ th[t].pre \in {"hot", "both"} =>
                   /\ th'[t].st = "ok"
                   /\ th'[t].vp = hot[th[t].key]
                   /\ th'[t].nalloc = 0
              /\ th[t].pre = "cold" =>
                   /\ th'[t].st = "ok"
                   /\ th'[t].vp \notin {hot[k] : k \in Keys}
                   /\ content'[th'[t].vp] = cold[th[t].key]
              /\ th[t].pre = "absent" =>
                   /\ th'[t].st = "nf"
                   /\ th'[t].vp = Nil]_vars

C15_Witness ==
  \E t \in Threads :
    /\ Returned(t, "Get") /\ th[t].pre = "both"
    /\ content[th[t].vp] # cold[th[t].key]

\* ---- a raw GetSnapshot beside mutating threads, on a store whose Hot tier
\* holds one key ----
\* thread 1 takes snapshots, the other threads mutate
GapNext ==
  \/ CallGetSnapshot(1) \/ SnapLockHot(1) \/ SnapHot(1) \/ SnapLockCold(1)
  \/ SnapCold(1) \/ Return(1)
  \/ \E t \in Threads \ {1} :
       \/ CallGetOrCreate(t) \/ GocDram(t) \/ GocCold(t) \/ GocTryInsert(t)
       \/ DramInsertTry(t)
       \/ CallRemove(t) \/ RemoveDram(t) \/ RemoveCold(t)
       \/ CallEviction(t) \/ EvGet(t) \/ EvCommit(t) \/ EvRemove(t) \/ EvDestroy(t)
       \/ CallEvictionWithDelayedDestroy(t) \/ EwddLockHot(t) \/ EwddLockCold(t)
       \/ EwddRelease(t) \/ EwddGet(t) \/ EwddCommit(t) \/ EwddRemove(t)
       \/ EwddKeep(t) \/ Return(t)

SpecGap == InitOne /\ [][GapNext]_vars

\* how often key k is in the list s
Count(s, k) == Cardinality({j \in DOMAIN s : s[j] = k})

\* C16: the raw GetSnapshot never holds both mutexes and holds none between
\* its two phases; a key whose Cold entry appeared between the Hot phase and
\* the Cold phase is in at most one of the two listings.
C16_TwoPhaseSnapshot ==
  \A t \in Threads :
    /\ th[t].op = "GetSnapshot" =>
         /\ ~(hotMu = t /\ coldMu = t)
         /\ th[t].pc = "snap_lock_cold" => (hotMu # t /\ coldMu # t)
    /\ Returned(t, "GetSnapshot") =>
         \A k \in Keys :
           (\A m \in th[t].moved : m[1] # k) => Count(th[t].klist, k) <= 1

\* ---- GetOrCreate beside threads that create and evict the same keys ----
\* thread 1 only calls GetOrCreate, the other threads also evict
MixNext ==
  \/ \E t \in Threads :
       \/ CallGetOrCreate(t) \/ GocDram(t) \/ GocCold(t) \/ GocTryInsert(t)
       \/ GocLost(t) \/ DramInsertTry(t) \/ DramInsertLost(t)
       \/ Return(t)
  \/ \E t \in Threads \ {1} :
       \/ CallEviction(t) \/ EvGet(t) \/ EvCommit(t) \/ EvRemove(t) \/ EvDestroy(t)
       \/ CallEvictionWithDelayedDestroy(t) \/ EwddLockHot(t) \/ EwddLockCold(t)
       \/ EwddRelease(t) \/ EwddGet(t) \/ EwddCommit(t) \/ EwddRemove(t)
       \/ EwddKeep(t)

SpecMix == Init /\ [][MixNext]_vars

\* C17: whatever GetOrCreate and eviction calls run beside it, the step by
\* which GetOrCreate(k, size) returns hands back OK and the record that is
\* Hot's entry for k at that moment.
C17_GetOrCreateYieldsRecord ==
  [][\A t \in Threads :
       (th[t].op = "GetOrCreate" /\ Running(t) /\ th'[t].pc = "done") =>
         /\ th'[t].st = "ok"
         /\ th'[t].vp # Nil
         /\ th'[t].vp = hot'[th[t].key]]_vars

\* ---- threads that call Eviction and Remove on a store whose keys are all
\* in Hot ----
EvictNext ==
  \E t \in Threads :
    \/ CallEviction(t) \/ EvGet(t) \/ EvCommit(t) \/ EvRemove(t) \/ EvDestroy(t)
    \/ CallRemove(t) \/ RemoveDram(t) \/ RemoveCold(t)
    \/ Return(t)

SpecEvict == InitHot /\ [][EvictNext]_vars

\* C18: with Eviction calls on the same keys, or Eviction beside Remove, the
\* TF_CHECK_OK of the Hot Remove never fails, no record is destroyed twice,
\* and a record Eviction has unlinked is destroyed by that call.
C18_ConcurrentEvictionsSafe ==
  /\ ~aborted
  /\ ~freeErr
  /\ \A t \in Threads :
       th[t].pc = "ev_destroy" => th[t].vp \notin freed

\* ---- threads that call Remove and both evictions, and create nothing, on a
\* store whose keys are all in Hot ----
FinalNext ==
  \E t \in Threads :
    \/ CallRemove(t) \/ RemoveDram(t) \/ RemoveCold(t)
    \/ CallEviction(t) \/ EvGet(t) \/ EvCommit(t) \/ EvRemove(t) \/ EvDestroy(t)
    \/ CallEvictionWithDelayedDestroy(t) \/ EwddLockHot(t) \/ EwddLockCold(t)
    \/ EwddRelease(t) \/ EwddGet(t) \/ EwddCommit(t) \/ EwddRemove(t)
    \/ EwddKeep(t) \/ Return(t)

SpecFinal == InitHot /\ [][FinalNext]_vars

\* C19: when nothing creates keys, a key Remove has removed stays out of both
\* tiers from the return of Remove on, whatever eviction was in flight.
C19_RemovalFinalUnderEviction ==
  \A t \in Threads :
    Returned(t, "Remove") =>
      (~DramContains(th[t].key) /\ ~ColdContains(th[t].key))

\* ---- raw GetSnapshot calls beside a thread that creates and evicts and
\* never calls Remove ----
\* thread 1 mutates, the other threads take snapshots
StableNext ==
  \/ CallGetOrCreate(1) \/ GocDram(1) \/ GocCold(1) \/ GocTryInsert(1)
  \/ DramInsertTry(1)
  \/ CallEviction(1) \/ EvGet(1) \/ EvCommit(1) \/ EvRemove(1) \/ EvDestroy(1)
  \/ CallEvictionWithDelayedDestroy(1) \/ EwddLockHot(1) \/ EwddLockCold(1)
  \/ EwddRelease(1) \/ EwddGet(1) \/ EwddCommit(1) \/ EwddRemove(1)
  \/ EwddKeep(1) \/ Return(1)
  \/ \E t \in Threads \ {1} :
       \/ CallGetSnapshot(t) \/ SnapLockHot(t) \/ SnapHot(t) \/ SnapLockCold(t)
       \/ SnapCold(t) \/ Return(t)

SpecStable == Init /\ [][StableNext]_vars

\* C20: without Remove a key that is in Hot or in Cold stays in Hot or in
\* Cold, so a key that was there when a raw GetSnapshot was called is in Hot
\* or in Cold when the call lists Hot; the keys in Hot at that moment are put
\* on the key list then, and every key in Cold at that moment is on the key
\* list the call returns.
C20_StableKeyListed ==
  /\ [][(HotKeys \cup ColdKeys) \subseteq (HotKeys \cup ColdKeys)']_vars
  /\ [][\A t \in Threads :
          th[t].pc = "snap_hot" /\ th'[t].pc = "snap_lock_cold" =>
            \A k \in HotKeys \cup ColdKeys :
              \/ k \in Range(th'[t].klist)
              \/ \E m \in th'[t].moved : m[1] = k]_vars
  /\ [](\A t \in Threads :
          Returned(t, "GetSnapshot") =>
            \A m \in th[t].moved : m[1] \in Range(th[t].klist))

\* a key that was in Cold only when Hot was listed has been promoted since
C20_Witness ==
  \E t \in Threads, k \in Keys :
    /\ Returned(t, "GetSnapshot")
    /\ \E m \in th[t].moved : m[1] = k
    /\ Count(th[t].klist, k) = 1
    /\ DramContains(k)

====
